---- MODULE Spec2Model ----
(***************************************************************************)
(* Model of opacore-server's two core subsystems:                          *)
(*   - the lot accounting engine (services/costbasis.rs), and              *)
(*   - the invoice payment checker (services/invoice_checker.rs) together  *)
(*     with the invoice routes that call it (routes/invoices.rs).          *)
(*                                                                         *)
(* USD figures are kept in fixed point: an f64 value v of the code is the  *)
(* integer v * 1e8 here, so (disposed / 1e8) * price is disposed * price.  *)
(* An Option<T> is a sequence of length 0 (None) or 1 (Some).              *)
(***************************************************************************)
EXTENDS Integers, Sequences, FiniteSets, TLC

\* ------------------------------------------------------------------ bounds
\* rows of one ledger read by calculate_cost_basis
MaxLedger == 4
\* largest amount_sat of a sell or send row
MaxAmount == 3
\* rows of one ledger of the tax-year runs
MaxYearLedger == 3
\* on-demand payment checks (route requests) in flight at once
MaxRequests == 1
\* transactions the chain client comes to know
MaxChainTxs == 2
\* last instant of the clock
MaxTime == 1
\* outputs of one transaction of the matching runs
MaxVouts == 2
\* sent invoices of the batch runs
MaxBatch == 2

\* ------------------------------------------------------------------ helpers
None == <<>>
Some(x) == <<x>>
IsSome(o) == o # <<>>
UnwrapOr(o, d) == IF o = <<>> THEN d ELSE o[1]

Min(a, b) == IF a <= b THEN a ELSE b

RECURSIVE SumSeq(_)
SumSeq(s) == IF s = <<>> THEN 0 ELSE Head(s) + SumSeq(Tail(s))

Reverse(s) == [i \in 1..Len(s) |-> s[Len(s) + 1 - i]]

\* ------------------------------------------------------------------ dates
\* A transacted_at string "YYYY-MM-DD..." is the triple <<y, m, d>>; string
\* order of zero-padded dates is the lexicographic order of the triples.
DateLeq(a, b) ==
    \/ a[1] < b[1]
    \/ a[1] = b[1] /\ a[2] < b[2]
    \/ a[1] = b[1] /\ a[2] = b[2] /\ a[3] <= b[3]

IsLeap(y) == (y % 4 = 0 /\ y % 100 # 0) \/ y % 400 = 0

DaysInMonth(y, m) ==
    IF m = 2 THEN (IF IsLeap(y) THEN 29 ELSE 28)
    ELSE IF m \in {4, 6, 9, 11} THEN 30 ELSE 31

\* NaiveDate::parse_from_str(date_part, "%Y-%m-%d").ok()
ParseDate(s) ==
    IF s[2] \in 1..12 /\ s[3] >= 1 /\ s[3] <= DaysInMonth(s[1], s[2])
    THEN Some(s) ELSE None

RECURSIVE DaysBeforeMonth(_, _)
DaysBeforeMonth(y, m) ==
    IF m = 1 THEN 0 ELSE DaysBeforeMonth(y, m - 1) + DaysInMonth(y, m - 1)

\* days since a fixed epoch (proleptic Gregorian), as chrono counts them
DayNumber(d) ==
    LET y == d[1] - 1
    IN  365 * y + (y \div 4) - (y \div 100) + (y \div 400)
        + DaysBeforeMonth(d[1], d[2]) + d[3]

days_between(start, end) ==
    LET s == ParseDate(start)
        e == ParseDate(end)
    IN  IF IsSome(s) /\ IsSome(e) THEN DayNumber(e[1]) - DayNumber(s[1]) ELSE 0

\* ------------------------------------------------------------------ lots
Methods == {"fifo", "lifo", "hifo"}

Lot(amount, price, date) ==
    [amount_sat |-> amount, price_usd |-> price, date |-> date]

\* insertion of one lot behind every lot whose price is not lower: the result of
\* a stable sort by descending price
RECURSIVE InsertByPriceDesc(_, _)
InsertByPriceDesc(sorted, lot) ==
    IF sorted = <<>> THEN <<lot>>
    ELSE IF Head(sorted).price_usd >= lot.price_usd
         THEN <<Head(sorted)>> \o InsertByPriceDesc(Tail(sorted), lot)
         ELSE <<lot>> \o sorted

RECURSIVE StableSortByPriceDesc(_)
StableSortByPriceDesc(lots) ==
    IF lots = <<>> THEN <<>>
    ELSE InsertByPriceDesc(StableSortByPriceDesc(SubSeq(lots, 1, Len(lots) - 1)),
                           lots[Len(lots)])

\* slips of sort_lots: Fifo reverses; Hifo leaves the order as it is
sort_lots_fifo_reversed(lots, m) ==
    CASE m = "fifo" -> Reverse(lots)
      [] m = "lifo" -> Reverse(lots)
      [] m = "hifo" -> StableSortByPriceDesc(lots)

sort_lots_hifo_unsorted(lots, m) ==
    CASE m = "fifo" -> lots
      [] m = "lifo" -> Reverse(lots)
      [] m = "hifo" -> lots

\* a slip: a Hifo sort that puts the later of two lots of equal price first
sort_lots_hifo_unstable(lots, m) ==
    CASE m = "fifo" -> lots
      [] m = "lifo" -> Reverse(lots)
      [] m = "hifo" -> StableSortByPriceDesc(Reverse(lots))

sort_lots(lots, m) ==
    CASE m = "fifo" -> lots
      [] m = "lifo" -> Reverse(lots)
      [] m = "hifo" -> StableSortByPriceDesc(lots)

\* a slip: the amount still to dispose is taken without the min
DisposedUnclamped(remaining, lot) == remaining

\* a slip: one unit is taken from the lot per iteration
DisposedByUnit(remaining, lot) == Min(remaining, 1)

\* let disposed = remaining.min(lot.amount_sat)
Disposed(remaining, lot) == Min(remaining, lot.amount_sat)

\* a slip: the filter keeps the disposals of the year and of the later years
IncludeFromYear(ty, date) == IF IsSome(ty) THEN date[1] >= ty[1] ELSE TRUE

\* the tax-year filter of one disposal
Include(ty, date) == IF IsSome(ty) THEN date[1] = ty[1] ELSE TRUE

\* a slip: a holding of 365 days counted as long-term
GainLossFrom365(lot, disposed, sell_price, date) ==
    LET cost_basis == disposed * lot.price_usd
        proceeds == disposed * sell_price
        holding_days == days_between(lot.date, date)
    IN  [sell_date |-> date,
         sell_amount_sat |-> disposed,
         sell_price_usd |-> sell_price,
         cost_basis_usd |-> cost_basis,
         proceeds_usd |-> proceeds,
         gain_usd |-> proceeds - cost_basis,
         is_long_term |-> holding_days >= 365,
         holding_period_days |-> holding_days]

\* a slip: the basis of the whole lot instead of the part disposed
GainLossWholeLotBasis(lot, disposed, sell_price, date) ==
    LET cost_basis == lot.amount_sat * lot.price_usd
        proceeds == disposed * sell_price
        holding_days == days_between(lot.date, date)
    IN  [sell_date |-> date,
         sell_amount_sat |-> disposed,
         sell_price_usd |-> sell_price,
         cost_basis_usd |-> cost_basis,
         proceeds_usd |-> proceeds,
         gain_usd |-> proceeds - cost_basis,
         is_long_term |-> holding_days > 365,
         holding_period_days |-> holding_days]

GainLoss(lot, disposed, sell_price, date) ==
    LET cost_basis == disposed * lot.price_usd
        proceeds == disposed * sell_price
        holding_days == days_between(lot.date, date)
    IN  [sell_date |-> date,
         sell_amount_sat |-> disposed,
         sell_price_usd |-> sell_price,
         cost_basis_usd |-> cost_basis,
         proceeds_usd |-> proceeds,
         gain_usd |-> proceeds - cost_basis,
         is_long_term |-> holding_days > 365,
         holding_period_days |-> holding_days]

\* a slip: the first lot is removed whenever it is drawn from
ReduceFirstDropsLot(ls, disposed) == Tail(ls)

\* lot.amount_sat -= disposed; if lot.amount_sat == 0 { lots.remove(0) }
ReduceFirst(ls, disposed) ==
    IF ls[1].amount_sat - disposed = 0
    THEN Tail(ls)
    ELSE [ls EXCEPT ![1].amount_sat = @ - disposed]

\* a slip: the lot is reduced only when the record is reported
DisposeStepFiltered(w, sell_price, date, ty) ==
    LET lot == w.lots[1]
        disposed == Disposed(w.remaining, lot)
        g == GainLoss(lot, disposed, sell_price, date)
    IN  [lots |-> IF Include(ty, date) THEN ReduceFirst(w.lots, disposed) ELSE Tail(w.lots),
         gains |-> IF Include(ty, date) THEN Append(w.gains, g) ELSE w.gains,
         remaining |-> IF Include(ty, date) THEN w.remaining - disposed ELSE 0]

\* a slip: a lot drawn from only in part leaves no record
DisposeStepSkipsPartial(w, sell_price, date, ty) ==
    LET lot == w.lots[1]
        disposed == Disposed(w.remaining, lot)
        g == GainLoss(lot, disposed, sell_price, date)
    IN  [lots |-> ReduceFirst(w.lots, disposed),
         gains |-> IF Include(ty, date) /\ disposed = lot.amount_sat
                   THEN Append(w.gains, g) ELSE w.gains,
         remaining |-> w.remaining - disposed]

\* one iteration of the while loop of a sell/send row; w is the loop's state
\* [lots, gains, remaining]
DisposeStep(w, sell_price, date, ty) ==
    LET lot == w.lots[1]
        disposed == Disposed(w.remaining, lot)
        g == GainLoss(lot, disposed, sell_price, date)
    IN  [lots |-> ReduceFirst(w.lots, disposed),
         gains |-> IF Include(ty, date) THEN Append(w.gains, g) ELSE w.gains,
         remaining |-> w.remaining - disposed]

\* while remaining > 0 && !lots.is_empty()
RECURSIVE Deplete(_, _, _, _)
Deplete(w, sell_price, date, ty) ==
    IF w.remaining > 0 /\ w.lots # <<>>
    THEN Deplete(DisposeStep(w, sell_price, date, ty), sell_price, date, ty)
    ELSE [lots |-> w.lots, gains |-> w.gains]

IsAcquisition(tx) == tx.tx_type \in {"buy", "receive"}
IsDisposal(tx) == tx.tx_type \in {"sell", "send"}

\* one iteration of the loop over the rows
ProcessTx(st, tx, m, ty) ==
    LET price == UnwrapOr(tx.price_usd, 0)
    IN  IF IsAcquisition(tx)
        THEN [lots |-> Append(st.lots, Lot(tx.amount_sat, price, tx.transacted_at)),
              gains |-> st.gains]
        ELSE IF IsDisposal(tx)
        THEN Deplete([lots |-> sort_lots(st.lots, m), gains |-> st.gains,
                      remaining |-> tx.amount_sat],
                     price, tx.transacted_at, ty)
        ELSE st

\* the whole loop over a ledger
RECURSIVE RunLedger(_, _, _)
RunLedger(rows, m, ty) ==
    IF rows = <<>> THEN [lots |-> <<>>, gains |-> <<>>]
    ELSE ProcessTx(RunLedger(SubSeq(rows, 1, Len(rows) - 1), m, ty),
                   rows[Len(rows)], m, ty)

\* the summary of a portfolio: the balance is the sum of the acquired amounts
\* minus the sum of the sold and sent amounts of the stored rows; the cost basis
\* is the one of the lots a run without a filter leaves
portfolio_summary(rows, m) ==
    LET total_received ==
            SumSeq([i \in 1..Len(rows) |->
                      IF IsAcquisition(rows[i]) THEN rows[i].amount_sat ELSE 0])
        total_sent ==
            SumSeq([i \in 1..Len(rows) |->
                      IF IsDisposal(rows[i]) THEN rows[i].amount_sat ELSE 0])
        basis == RunLedger(rows, m, None)
    IN  [total_balance_sat |-> total_received - total_sent,
         total_cost_basis_usd |->
            SumSeq([i \in 1..Len(basis.lots) |->
                      basis.lots[i].amount_sat * basis.lots[i].price_usd]),
         total_received_sat |-> total_received,
         total_sent_sat |-> total_sent,
         transaction_count |-> Len(rows)]

\* ------------------------------------------------------------------ state
VARIABLES
    method,     \* calculate_cost_basis: the method argument
    tax_year,   \* calculate_cost_basis: the tax_year argument
    txs,        \* the rows of the ledger processed so far, in ORDER BY order
    lots,       \* the working set of lots
    gains       \* the disposal records emitted so far

VARIABLES
    inv,        \* the invoices table: id -> row
    chain,      \* the transactions the chain client knows, newest first
    now,        \* the clock (chrono::Utc::now())
    bg,         \* run_invoice_checker: where the loop is, and the batch left
    calls,      \* check_invoice_payment calls in flight: caller -> call
    last        \* the outcome of the call of check_invoice_payment that ended last

cbVars == <<method, tax_year, txs, lots, gains>>
invVars == <<inv, chain, now, bg, calls, last>>
vars == <<method, tax_year, txs, lots, gains, inv, chain, now, bg, calls, last>>

Tx(type, amount, price, date) ==
    [tx_type |-> type, amount_sat |-> amount, price_usd |-> price,
     transacted_at |-> date]

\* ORDER BY transacted_at ASC: a row never precedes the rows before it. The
\* actions below are the arms of the match on tx_type in the loop over the rows;
\* max bounds the number of rows of the ledger.
InOrder(tx) ==
    IF txs = <<>> THEN TRUE
    ELSE DateLeq(txs[Len(txs)].transacted_at, tx.transacted_at)

Acquire(tx, max) ==
    /\ Len(txs) < max
    /\ InOrder(tx)
    /\ IsAcquisition(tx)
    /\ txs' = Append(txs, tx)
    /\ lots' = ProcessTx([lots |-> lots, gains |-> gains], tx, method, tax_year).lots
    /\ gains' = gains
    /\ UNCHANGED <<method, tax_year>>
    /\ UNCHANGED invVars

Dispose(tx, max) ==
    /\ Len(txs) < max
    /\ InOrder(tx)
    /\ IsDisposal(tx)
    /\ txs' = Append(txs, tx)
    /\ LET r == ProcessTx([lots |-> lots, gains |-> gains], tx, method, tax_year)
       IN  lots' = r.lots /\ gains' = r.gains
    /\ UNCHANGED <<method, tax_year>>
    /\ UNCHANGED invVars

Skip(tx, max) ==
    /\ Len(txs) < max
    /\ InOrder(tx)
    /\ ~IsAcquisition(tx) /\ ~IsDisposal(tx)
    /\ txs' = Append(txs, tx)
    /\ UNCHANGED <<method, tax_year, lots, gains>>
    /\ UNCHANGED invVars

\* results reported by calculate_cost_basis
remaining_lots == Len(lots)
remaining_balance_sat == SumSeq([i \in 1..Len(lots) |-> lots[i].amount_sat])

\* ------------------------------------------------------------------ tax report
\* USD amounts of the model are fixed-point: Cent units make one cent, so that
\* a disposal of a few satoshis is worth a fraction of a cent
Cent == 1000

\* (v * 100.0).round() / 100.0: to the nearest cent, halves away from zero
round2(v) ==
    IF v >= 0 THEN ((v + Cent \div 2) \div Cent) * Cent
    ELSE 0 - (((0 - v) + Cent \div 2) \div Cent) * Cent

\* format!("{:.2}", v): the number of cents printed, halves to the even cent
Format2(v) ==
    LET a == IF v >= 0 THEN v ELSE 0 - v
        q == a \div Cent
        r == a % Cent
        c == IF 2 * r > Cent \/ (2 * r = Cent /\ q % 2 = 1) THEN q + 1 ELSE q
    IN  IF v >= 0 THEN c ELSE 0 - c

total_realized_gain_usd(gs) == SumSeq([k \in 1..Len(gs) |-> gs[k].gain_usd])

TaxDisposition(g) ==
    [description |-> g.sell_amount_sat,
     date_acquired |-> "Various",
     date_sold |-> g.sell_date,
     proceeds |-> round2(g.proceeds_usd),
     cost_basis |-> round2(g.cost_basis_usd),
     gain_or_loss |-> round2(g.gain_usd),
     holding_period |-> IF g.is_long_term THEN "Long-term" ELSE "Short-term",
     holding_days |-> g.holding_period_days]

\* the report over the gains calculate_cost_basis returns for the year
generate_tax_report(gs) ==
    LET dispositions == [k \in 1..Len(gs) |-> TaxDisposition(gs[k])]
        total_proceeds == SumSeq([k \in 1..Len(gs) |-> dispositions[k].proceeds])
        total_cost == SumSeq([k \in 1..Len(gs) |-> dispositions[k].cost_basis])
    IN  [total_gains |-> round2(total_realized_gain_usd(gs)),
         total_proceeds |-> round2(total_proceeds),
         total_cost_basis |-> round2(total_cost),
         disposition_count |-> Len(dispositions),
         dispositions |-> dispositions]

\* the header record of the CSV
CsvHeader ==
    <<"Description of Property", "Date Acquired", "Date Sold or Disposed Of",
      "Proceeds (Sales Price)", "Cost or Other Basis", "Gain or (Loss)", "Term">>

\* the record written for one disposition
CsvRecord(d) ==
    <<d.description, d.date_acquired, d.date_sold, Format2(d.proceeds),
      Format2(d.cost_basis), Format2(d.gain_or_loss), d.holding_period>>

\* the summary record
CsvTotals(report) ==
    <<"TOTALS", "", "", Format2(report.total_proceeds),
      Format2(report.total_cost_basis), Format2(report.total_gains), "">>

\* a slip: the records of the dispositions without the summary record
CsvLinesNoTotals(report) ==
    <<CsvHeader>> \o [k \in 1..Len(report.dispositions) |-> CsvRecord(report.dispositions[k])]

\* the records the writer is given, in order
CsvLines(report) ==
    <<CsvHeader>>
    \o [k \in 1..Len(report.dispositions) |-> CsvRecord(report.dispositions[k])]
    \o <<CsvTotals(report)>>

\* the CSV: a row of printed amounts per disposition and the TOTALS row
generate_form_8949_csv(gs) ==
    LET report == generate_tax_report(gs)
    IN  [lines |-> CsvLines(report),
         rows |-> [k \in 1..Len(report.dispositions) |->
                     [proceeds |-> Format2(report.dispositions[k].proceeds),
                      cost_basis |-> Format2(report.dispositions[k].cost_basis),
                      gain_or_loss |-> Format2(report.dispositions[k].gain_or_loss),
                      term |-> report.dispositions[k].holding_period]],
         totals |-> [proceeds |-> Format2(report.total_proceeds),
                     cost_basis |-> Format2(report.total_cost_basis),
                     gain_or_loss |-> Format2(report.total_gains)]]

\* ------------------------------------------------------------------ invoices
Statuses == {"draft", "sent", "paid", "expired", "cancelled"}

\* SELECT ... FROM invoices WHERE status = 'sent' LIMIT 10
BatchLimit == 10

\* callers of check_invoice_payment: 0 is the background loop, the others are
\* route requests
Loop == 0
Requests == 1..MaxRequests
Callers == {Loop} \cup Requests

\* the row `create` stores: status 'draft', no payment
NewInvoice(address, amount, reusable, expires) ==
    [btc_address |-> address, amount_sat |-> amount, reusable |-> reusable,
     status |-> "draft", expires_at |-> expires,
     paid_at |-> None, paid_txid |-> None, paid_amount_sat |-> None]

\* an Esplora transaction
\* an Esplora transaction: vin lists the addresses of the outputs it spends
EsploraTx(txid, vout) == [txid |-> txid, vin |-> <<>>, vout |-> vout]
SpendTx(txid, from, vout) == [txid |-> txid, vin |-> <<from>>, vout |-> vout]
Vout(address, value) == [scriptpubkey_address |-> Some(address), value |-> value]

\* GET /address/{addr}/txs: the transactions with an output to the address
TouchesAddress(tx, address) ==
    \E k \in 1..Len(tx.vout) : tx.vout[k].scriptpubkey_address = Some(address)

SpendsFrom(tx, address) == \E k \in 1..Len(tx.vin) : tx.vin[k] = address

AddressTxs(c, address) ==
    SelectSeq(c, LAMBDA tx : TouchesAddress(tx, address) \/ SpendsFrom(tx, address))

\* what a call can get back from the chain client
Responses(address) ==
    {[kind |-> "ok", txs |-> AddressTxs(chain, address)],
     [kind |-> "status", txs |-> <<>>],
     [kind |-> "error", txs |-> <<>>]}

\* the sum of the values of the outputs of tx to the address
Received(tx, address) ==
    SumSeq([k \in 1..Len(tx.vout) |->
              IF tx.vout[k].scriptpubkey_address = Some(address)
              THEN tx.vout[k].value ELSE 0])

\* received >= amount_sat as u64, for a u64 sum `received` below 2^63: a
\* negative i64 wraps to amount_sat + 2^64, which is at least 2^63
ReachesAsU64(received, amount) == amount >= 0 /\ received >= amount

\* if received >= amount_sat as u64
Qualifies(tx, address, amount) == ReachesAsU64(Received(tx, address), amount)

\* a slip: the last qualifying transaction of the response instead of the first
LastQualifying(rtxs, address, amount) ==
    LET hits == {k \in 1..Len(rtxs) : Qualifies(rtxs[k], address, amount)}
    IN  IF hits = {} THEN 0 ELSE CHOOSE k \in hits : \A j \in hits : k >= j

\* the first transaction of the response that qualifies, 0 when none does
FirstQualifying(rtxs, address, amount) ==
    LET hits == {k \in 1..Len(rtxs) : Qualifies(rtxs[k], address, amount)}
    IN  IF hits = {} THEN 0 ELSE CHOOSE k \in hits : \A j \in hits : k <= j

\* a slip: the paid write without its condition on the stored status
PaidWriteMatchesAnyStatus(table, id) == id \in DOMAIN table

\* UPDATE invoices SET ... WHERE id = ?5 AND status != 'paid': the rows it matches
PaidWriteMatches(table, id) == id \in DOMAIN table /\ table[id].status # "paid"

\* the table after the paid write
PaidWrite(table, id, at, txid, received) ==
    IF PaidWriteMatches(table, id)
    THEN [table EXCEPT ![id] = [@ EXCEPT !.status = "paid",
                                        !.paid_at = Some(at),
                                        !.paid_txid = Some(txid),
                                        !.paid_amount_sat = Some(received)]]
    ELSE table

\* a slip: a response that is not a success reported as a payment
CheckReturnsFailureAsPaid(c, table) ==
    CASE c.resp.kind = "error" -> "err"
      [] c.resp.kind = "status" -> "true"
      [] OTHER -> IF FirstQualifying(c.resp.txs, c.btc_address, c.amount_sat) # 0
                  THEN "true" ELSE "false"

\* what check_invoice_payment returns: Err, Ok(false) or Ok(true)
CheckReturns(c, table) ==
    CASE c.resp.kind = "error" -> "err"
      [] c.resp.kind = "status" -> "false"
      [] OTHER -> IF FirstQualifying(c.resp.txs, c.btc_address, c.amount_sat) # 0
                  THEN "true" ELSE "false"

\* the table after check_invoice_payment has handled its response
CheckWrites(c, table, at) ==
    LET hit == FirstQualifying(c.resp.txs, c.btc_address, c.amount_sat)
    IN  IF c.resp.kind = "ok" /\ hit # 0
        THEN PaidWrite(table, c.invoice_id, at, c.resp.txs[hit].txid,
                       Received(c.resp.txs[hit], c.btc_address))
        ELSE table

\* the outcome of a finished call: what it returned, whether it found a
\* qualifying transaction, and the rows its UPDATE changed
Outcome(c, table) ==
    LET hit == IF c.resp.kind = "ok"
               THEN FirstQualifying(c.resp.txs, c.btc_address, c.amount_sat) ELSE 0
    IN  [invoice_id |-> c.invoice_id,
         ret |-> CheckReturns(c, table),
         found |-> hit # 0,
         rows |-> IF hit # 0 /\ PaidWriteMatches(table, c.invoice_id) THEN 1 ELSE 0]

NoResponse == [kind |-> "none", txs |-> <<>>]
IdleCall ==
    [phase |-> "idle", invoice_id |-> 0, btc_address |-> 0,
     amount_sat |-> 0, resp |-> NoResponse]
NoOutcome == [invoice_id |-> 0, ret |-> "none", found |-> FALSE, rows |-> 0]

\* check_invoice_payment up to its request to the chain client
SentCall(id, address, amount) ==
    [phase |-> "sent", invoice_id |-> id, btc_address |-> address,
     amount_sat |-> amount, resp |-> NoResponse]

\* the chain client answers a call in flight
EsploraRespond(c) ==
    /\ calls[c].phase = "sent"
    /\ \E r \in Responses(calls[c].btc_address) :
          calls' = [calls EXCEPT ![c].phase = "resp", ![c].resp = r]
    /\ UNCHANGED <<inv, chain, now, bg, last>>
    /\ UNCHANGED cbVars

\* a slip: the expiry without its condition on the status
ExpireAnyStatus(table, at) ==
    [i \in DOMAIN table |->
        IF IsSome(table[i].expires_at) /\ table[i].expires_at[1] < at
        THEN [table[i] EXCEPT !.status = "expired"]
        ELSE table[i]]

\* UPDATE invoices SET status = 'expired' WHERE status = 'sent' AND expires_at IS
\* NOT NULL AND expires_at < now
Expire(table, at) ==
    [i \in DOMAIN table |->
        IF /\ table[i].status = "sent"
           /\ IsSome(table[i].expires_at)
           /\ table[i].expires_at[1] < at
        THEN [table[i] EXCEPT !.status = "expired"]
        ELSE table[i]]

\* the batches SELECT ... WHERE status = 'sent' LIMIT 10 can return: SQL fixes
\* neither which rows of more than ten nor their order
RECURSIVE Orderings(_)
Orderings(S) ==
    IF S = {} THEN {<<>>}
    ELSE UNION {{<<i>> \o o : o \in Orderings(S \ {i})} : i \in S}

Batches(table) ==
    LET sent == {i \in DOMAIN table : table[i].status = "sent"}
        n == Min(Cardinality(sent), BatchLimit)
    IN  UNION {Orderings(S) : S \in {T \in SUBSET sent : Cardinality(T) = n}}

BatchRow(table, i) ==
    [id |-> i, btc_address |-> table[i].btc_address, amount_sat |-> table[i].amount_sat]

\* the same batches with the rows of each batch listed by ascending id: which
\* rows of more than ten are returned stays open
Ascending(S) ==
    [k \in 1..Cardinality(S) |->
        CHOOSE i \in S : Cardinality({j \in S : j < i}) = k - 1]

ScanBatches(table) ==
    LET sent == {i \in DOMAIN table : table[i].status = "sent"}
        n == Min(Cardinality(sent), BatchLimit)
    IN  {Ascending(S) : S \in {T \in SUBSET sent : Cardinality(T) = n}}

\* one cycle of run_invoice_checker up to the loop over the batch, the SELECT
\* returning one of `batches`
BgCycleAmong(batches) ==
    /\ bg.pc = "sleep"
    /\ LET expired == Expire(inv, now)
       IN  /\ inv' = expired
           /\ \E b \in batches :
                 bg' = [pc |-> IF b = <<>> THEN "sleep" ELSE "check",
                        batch |-> [k \in 1..Len(b) |-> BatchRow(expired, b[k])]]
    /\ UNCHANGED <<chain, now, calls, last>>
    /\ UNCHANGED cbVars

BgCycle == BgCycleAmong(Batches(Expire(inv, now)))

\* the cycle of a table of more than ten sent rows
BgCycleScan == BgCycleAmong(ScanBatches(Expire(inv, now)))

\* the chain client answers a call in flight with the transactions of the address
EsploraRespondOk(c) ==
    /\ EsploraRespond(c)
    /\ calls'[c].resp.kind = "ok"

\* the loop calls check_invoice_payment for the next invoice of the batch
BgCheckSend ==
    /\ bg.pc = "check"
    /\ calls[Loop].phase = "idle"
    /\ LET row == Head(bg.batch)
       IN  calls' = [calls EXCEPT ![Loop] =
                        SentCall(row.id, row.btc_address, row.amount_sat)]
    /\ UNCHANGED <<inv, chain, now, bg, last>>
    /\ UNCHANGED cbVars

\* a slip: a failed check ends the cycle
BgCheckFinishAborts ==
    /\ calls[Loop].phase = "resp"
    /\ inv' = CheckWrites(calls[Loop], inv, now)
    /\ last' = Outcome(calls[Loop], inv)
    /\ calls' = [calls EXCEPT ![Loop] = IdleCall]
    /\ bg' = IF CheckReturns(calls[Loop], inv) = "err" \/ Len(bg.batch) = 1
             THEN [pc |-> "sleep", batch |-> <<>>]
             ELSE [pc |-> "check", batch |-> Tail(bg.batch)]
    /\ UNCHANGED <<chain, now>>
    /\ UNCHANGED cbVars

\* the call of the loop returns; the loop logs and goes on to the next invoice
BgCheckFinish ==
    /\ calls[Loop].phase = "resp"
    /\ inv' = CheckWrites(calls[Loop], inv, now)
    /\ last' = Outcome(calls[Loop], inv)
    /\ calls' = [calls EXCEPT ![Loop] = IdleCall]
    /\ bg' = [pc |-> IF Len(bg.batch) = 1 THEN "sleep" ELSE "check",
              batch |-> Tail(bg.batch)]
    /\ UNCHANGED <<chain, now>>
    /\ UNCHANGED cbVars

\* POST .../check-payment up to the request to the chain client: a paid invoice
\* that is not reusable is returned as it is
CheckPaymentSend(r, i) ==
    /\ calls[r].phase = "idle"
    /\ i \in DOMAIN inv
    /\ IF inv[i].status = "paid" /\ ~inv[i].reusable
       THEN UNCHANGED calls
       ELSE calls' = [calls EXCEPT ![r] =
                        SentCall(i, inv[i].btc_address,
                                 inv[i].amount_sat)]
    /\ UNCHANGED <<inv, chain, now, bg, last>>
    /\ UNCHANGED cbVars

\* GET /api/v1/invoices/pay/{share_token}: a check only for a 'sent' invoice
PublicGetSend(r, i) ==
    /\ calls[r].phase = "idle"
    /\ i \in DOMAIN inv
    /\ IF inv[i].status = "sent"
       THEN calls' = [calls EXCEPT ![r] =
                        SentCall(i, inv[i].btc_address,
                                 inv[i].amount_sat)]
       ELSE UNCHANGED calls
    /\ UNCHANGED <<inv, chain, now, bg, last>>
    /\ UNCHANGED cbVars

\* the call of a route returns
RouteCheckFinish(r) ==
    /\ calls[r].phase = "resp"
    /\ inv' = CheckWrites(calls[r], inv, now)
    /\ last' = Outcome(calls[r], inv)
    /\ calls' = [calls EXCEPT ![r] = IdleCall]
    /\ UNCHANGED <<chain, now, bg>>
    /\ UNCHANGED cbVars

\* PUT .../invoices/{id}: the status and expires_at of the body, when given,
\* replace the stored ones
Expiries == {None, Some(0)}

UpdateBodies ==
    [status : {None} \cup {Some(st) : st \in Statuses},
     expires_at : Expiries]

Update(i, body) ==
    /\ i \in DOMAIN inv
    /\ inv' = [inv EXCEPT ![i] =
                 [@ EXCEPT !.status = UnwrapOr(body.status, @),
                           !.expires_at = IF IsSome(body.expires_at)
                                          THEN body.expires_at ELSE @]]
    /\ UNCHANGED <<chain, now, bg, calls, last>>
    /\ UNCHANGED cbVars

\* the clock advances
Tick ==
    /\ now < MaxTime
    /\ now' = now + 1
    /\ UNCHANGED <<inv, chain, bg, calls, last>>
    /\ UNCHANGED cbVars

\* a transaction paying an invoice address reaches the chain client
PayValues == {1, 2}

ChainPay(address, value) ==
    /\ Len(chain) < MaxChainTxs
    /\ chain' = <<EsploraTx(Len(chain) + 1, <<Vout(address, value)>>)>> \o chain
    /\ UNCHANGED <<inv, now, bg, calls, last>>
    /\ UNCHANGED cbVars

\* a transaction spending from an invoice address, paying another address,
\* reaches the chain client
ChainSpend(address, to) ==
    /\ Len(chain) < MaxChainTxs
    /\ chain' = <<SpendTx(Len(chain) + 1, address, <<Vout(to, 1)>>)>> \o chain
    /\ UNCHANGED <<inv, now, bg, calls, last>>
    /\ UNCHANGED cbVars

\* the ids of the invoice rows: every statement of the checks and of the routes
\* reads and writes one row, selected by id
Invoices == {1}
InvoiceAmounts == {2}

NoInvoices ==
    /\ inv = <<>>
    /\ chain = <<>>
    /\ now = 0
    /\ bg = [pc |-> "sleep", batch |-> <<>>]
    /\ calls = [c \in Callers |-> IdleCall]
    /\ last = NoOutcome

InitInvoices ==
    /\ \E req \in [Invoices -> [amount_sat : InvoiceAmounts, reusable : BOOLEAN,
                                 expires_at : Expiries]] :
          inv = [i \in Invoices |->
                   NewInvoice(i, req[i].amount_sat, req[i].reusable,
                              req[i].expires_at)]
    /\ chain = <<>>
    /\ now = 0
    /\ bg = [pc |-> "sleep", batch |-> <<>>]
    /\ calls = [c \in Callers |-> IdleCall]
    /\ last = NoOutcome
    /\ method = "fifo" /\ tax_year = None /\ txs = <<>> /\ lots = <<>> /\ gains = <<>>

NextInvoices ==
    \/ BgCycle
    \/ BgCheckSend
    \/ BgCheckFinish
    \/ \E c \in Callers : EsploraRespond(c)
    \/ \E r \in Requests, i \in Invoices : CheckPaymentSend(r, i)
    \/ \E r \in Requests, i \in Invoices : PublicGetSend(r, i)
    \/ \E r \in Requests : RouteCheckFinish(r)
    \/ \E i \in Invoices, body \in UpdateBodies : Update(i, body)
    \/ Tick
    \/ \E i \in Invoices, v \in PayValues : ChainPay(i, v)

SpecInvoices == InitInvoices /\ [][NextInvoices]_vars

\* the store once its invoices have been created and sent, before any check
SentInvoices ==
    /\ \E req \in [Invoices -> [amount_sat : InvoiceAmounts, reusable : BOOLEAN,
                                 expires_at : Expiries]] :
          inv = [i \in Invoices |->
                   [NewInvoice(i, req[i].amount_sat, req[i].reusable,
                               req[i].expires_at) EXCEPT !.status = "sent"]]
    /\ chain = <<>>
    /\ now = 0
    /\ bg = [pc |-> "sleep", batch |-> <<>>]
    /\ calls = [c \in Callers |-> IdleCall]
    /\ last = NoOutcome
    /\ method = "fifo" /\ tax_year = None /\ txs = <<>> /\ lots = <<>> /\ gains = <<>>

\* the checks of the loop and of the routes with no edit of the invoices
NextChecks ==
    \/ BgCycle
    \/ BgCheckSend
    \/ BgCheckFinish
    \/ \E c \in Callers : EsploraRespond(c)
    \/ \E r \in Requests, i \in Invoices : CheckPaymentSend(r, i)
    \/ \E r \in Requests, i \in Invoices : PublicGetSend(r, i)
    \/ \E r \in Requests : RouteCheckFinish(r)
    \/ Tick
    \/ \E i \in Invoices, v \in PayValues : ChainPay(i, v)

SpecChecks == SentInvoices /\ [][NextChecks]_vars

\* the matching runs: one sent invoice and a chain of transactions with several
\* outputs, to the invoice address or to another address
MatchAddress == 1
OtherAddress == 2
MatchAmounts == {1, 2}
MatchVouts ==
    {Vout(a, 1) : a \in {MatchAddress, OtherAddress}}
MatchVoutSeqs == UNION {[1..n -> MatchVouts] : n \in 1..MaxVouts}
MatchChains ==
    UNION {{[k \in 1..n |-> EsploraTx(n - k + 1, vs[k])] : vs \in [1..n -> MatchVoutSeqs]} :
             n \in 0..MaxChainTxs}

InitMatch ==
    /\ \E amount \in MatchAmounts :
          inv = <<[NewInvoice(MatchAddress, amount, FALSE, None) EXCEPT !.status = "sent"]>>
    /\ chain \in MatchChains
    /\ now = 0
    /\ bg = [pc |-> "sleep", batch |-> <<>>]
    /\ calls = [c \in Callers |-> IdleCall]
    /\ last = NoOutcome
    /\ method = "fifo" /\ tax_year = None /\ txs = <<>> /\ lots = <<>> /\ gains = <<>>

\* the loop alone checks the invoice
NextMatch ==
    \/ BgCycle
    \/ BgCheckSend
    \/ EsploraRespond(Loop)
    \/ BgCheckFinish

SpecMatch == InitMatch /\ [][NextMatch]_vars

\* the batch runs: several sent invoices, checked by the loop alone
BatchInvoices == 1..MaxBatch

InitBatch ==
    /\ inv = [i \in BatchInvoices |->
                [NewInvoice(i, 2, FALSE, None) EXCEPT !.status = "sent"]]
    /\ chain = <<>>
    /\ now = 0
    /\ bg = [pc |-> "sleep", batch |-> <<>>]
    /\ calls = [c \in Callers |-> IdleCall]
    /\ last = NoOutcome
    /\ method = "fifo" /\ tax_year = None /\ txs = <<>> /\ lots = <<>> /\ gains = <<>>

NextBatch ==
    \/ BgCycle
    \/ BgCheckSend
    \/ EsploraRespond(Loop)
    \/ BgCheckFinish
    \/ \E i \in BatchInvoices, v \in PayValues : ChainPay(i, v)

SpecBatch == InitBatch /\ [][NextBatch]_vars

\* the expiry runs: invoices of every status but expired, with and without
\* an expiry, the paid ones with their payment recorded; the loop alone acts
ExpiryRows ==
    {[NewInvoice(0, 2, FALSE, e) EXCEPT !.status = st] :
        st \in {"draft", "sent", "cancelled"}, e \in {None, Some(0), Some(MaxTime)}}
    \cup {[NewInvoice(0, 2, FALSE, e) EXCEPT !.status = "paid",
                                             !.paid_at = Some(0),
                                             !.paid_txid = Some(1),
                                             !.paid_amount_sat = Some(2)] :
        e \in {None, Some(0), Some(MaxTime)}}

InitExpiry ==
    /\ \E rows \in [BatchInvoices -> ExpiryRows] :
          inv = [i \in BatchInvoices |-> [rows[i] EXCEPT !.btc_address = i]]
    /\ chain = <<>>
    /\ now = 0
    /\ bg = [pc |-> "sleep", batch |-> <<>>]
    /\ calls = [c \in Callers |-> IdleCall]
    /\ last = NoOutcome
    /\ method = "fifo" /\ tax_year = None /\ txs = <<>> /\ lots = <<>> /\ gains = <<>>

NextExpiry ==
    \/ BgCycle
    \/ BgCheckSend
    \/ EsploraRespond(Loop)
    \/ BgCheckFinish
    \/ Tick

SpecExpiry == InitExpiry /\ [][NextExpiry]_vars

\* the payment-link runs: one sent row of any amount `create` stores for a
\* payment link (none given: 0; given: not validated), transactions paying its
\* address and spending from it; the loop alone checks
LinkAmounts == {0 - 1, 0, 2}

InitLinks ==
    /\ \E amount \in LinkAmounts :
          inv = <<[NewInvoice(MatchAddress, amount, FALSE, None) EXCEPT !.status = "sent"]>>
    /\ chain = <<>>
    /\ now = 0
    /\ bg = [pc |-> "sleep", batch |-> <<>>]
    /\ calls = [c \in Callers |-> IdleCall]
    /\ last = NoOutcome
    /\ method = "fifo" /\ tax_year = None /\ txs = <<>> /\ lots = <<>> /\ gains = <<>>

NextLinks ==
    \/ BgCycle
    \/ BgCheckSend
    \/ EsploraRespond(Loop)
    \/ BgCheckFinish
    \/ \E v \in PayValues : ChainPay(MatchAddress, v)
    \/ ChainSpend(MatchAddress, OtherAddress)

SpecLinks == InitLinks /\ [][NextLinks]_vars

\* the watcher runs: one sent invoice more than a batch holds, none of them
\* expiring, one of them paid on chain; the loop alone acts and the chain
\* client answers every call with the transactions of the address
WatchInvoices == 1..(BatchLimit + 1)

InitWatch ==
    /\ inv = [i \in WatchInvoices |->
                [NewInvoice(i, 2, FALSE, None) EXCEPT !.status = "sent"]]
    /\ \E p \in WatchInvoices : chain = <<EsploraTx(1, <<Vout(p, 2)>>)>>
    /\ now = 0
    /\ bg = [pc |-> "sleep", batch |-> <<>>]
    /\ calls = [c \in Callers |-> IdleCall]
    /\ last = NoOutcome
    /\ method = "fifo" /\ tax_year = None /\ txs = <<>> /\ lots = <<>> /\ gains = <<>>

NextWatch ==
    \/ BgCycleScan
    \/ BgCheckSend
    \/ EsploraRespondOk(Loop)
    \/ BgCheckFinish

\* the loop never stops: after each sleep the next cycle runs, and each call
\* is answered and returns
SpecWatch == InitWatch /\ [][NextWatch]_vars /\ WF_vars(NextWatch)

\* ------------------------------------------------------------------ ledgers
Prices == {100, 200, 300}
SellPrices == {400}
LotSizes == {1, 2}
TaxYears == {2023, 2024}

\* Ledger of the ordering runs: one row a day; manual buys and sells carry a
\* price, chain-synced receives and sends carry none.
DayOf(k) == <<2024, 1, k>>

LotRows(k) ==
    {Tx("buy", a, Some(p), DayOf(k)) : a \in LotSizes, p \in Prices}
    \cup {Tx("receive", 1, None, DayOf(k))}
    \cup {Tx("sell", a, Some(p), DayOf(k)) : a \in 1..MaxAmount, p \in SellPrices}
    \cup {Tx("send", MaxAmount, None, DayOf(k))}
    \cup {Tx("transfer", 1, None, DayOf(k))}

InitLots ==
    /\ method \in Methods
    /\ tax_year = None
    /\ txs = <<>>
    /\ lots = <<>>
    /\ gains = <<>>
    /\ NoInvoices

NextLots ==
    \/ \E tx \in LotRows(Len(txs) + 1) : Acquire(tx, MaxLedger)
    \/ \E tx \in LotRows(Len(txs) + 1) : Dispose(tx, MaxLedger)
    \/ \E tx \in LotRows(Len(txs) + 1) : Skip(tx, MaxLedger)

SpecLots == InitLots /\ [][NextLots]_vars

\* Ledgers of any stored amount: the manual create stores the amount_sat of the
\* request as it is, the chain sync stores a receive of 0 for a transaction
\* whose net effect on the wallet is zero
MaxAnyLedger == 4
AnyAmounts == {0 - 1, 0, 1, 2}

AnyRows(k) ==
    {Tx("buy", a, Some(100), DayOf(k)) : a \in AnyAmounts}
    \cup {Tx("receive", 0, None, DayOf(k))}
    \cup {Tx("sell", a, Some(p), DayOf(k)) : a \in AnyAmounts, p \in SellPrices}

NextAny ==
    \/ \E tx \in AnyRows(Len(txs) + 1) : Acquire(tx, MaxAnyLedger)
    \/ \E tx \in AnyRows(Len(txs) + 1) : Dispose(tx, MaxAnyLedger)

SpecAny == InitLots /\ [][NextAny]_vars

\* Ledger of the tax-year runs: rows dated around two year ends, so that holding
\* periods of 364, 365 and 366 days and disposals of either year occur.
YearDates == {<<2023, 1, 1>>, <<2023, 12, 31>>, <<2024, 1, 1>>, <<2024, 12, 31>>}

YearRows ==
    {Tx("buy", a, Some(100), d) : a \in LotSizes, d \in YearDates}
    \cup {Tx("sell", a, Some(p), d) : a \in {1, MaxAmount}, p \in SellPrices, d \in YearDates}
    \cup {Tx("transfer", 1, None, d) : d \in YearDates}

InitYear ==
    /\ method \in Methods
    /\ tax_year \in {None} \cup {Some(y) : y \in TaxYears}
    /\ txs = <<>>
    /\ lots = <<>>
    /\ gains = <<>>
    /\ NoInvoices

NextYear ==
    \/ \E tx \in YearRows : Acquire(tx, MaxYearLedger)
    \/ \E tx \in YearRows : Dispose(tx, MaxYearLedger)
    \/ \E tx \in YearRows : Skip(tx, MaxYearLedger)

SpecYear == InitYear /\ [][NextYear]_vars

\* ------------------------------------------------------------------ claims
Balance(ls) == SumSeq([i \in 1..Len(ls) |-> ls[i].amount_sat])
DisposedSat(gs) == SumSeq([i \in 1..Len(gs) |-> gs[i].sell_amount_sat])
AcquiredSat(rows) ==
    SumSeq([i \in 1..Len(rows) |->
              IF IsAcquisition(rows[i]) THEN rows[i].amount_sat ELSE 0])

DateLess(a, b) == DateLeq(a, b) /\ a # b

\* the row a step has just processed, and the records it has emitted
LastTx == txs'[Len(txs')]
DisposeTaken == txs' # txs /\ IsDisposal(LastTx)
AcquireTaken == txs' # txs /\ IsAcquisition(LastTx)
NewGains == SubSeq(gains', Len(gains) + 1, Len(gains'))

\* the lots of `before` a disposal drew from, and those left with a balance
\* (lots are told apart by their acquisition date: one row a day)
ConsumedLots(before, after) ==
    {before[i] : i \in {j \in 1..Len(before) :
                          \A k \in 1..Len(after) : after[k] # before[j]}}
LeftLots(after) == {after[k] : k \in 1..Len(after)}

\* C1: with positive amounts and no tax-year filter, after every processed row
\* remaining lot amounts + disposed amounts = acquired amounts, for each method.
C1_Conservation ==
    (tax_year = None /\ \A i \in 1..Len(txs) : txs[i].amount_sat > 0)
        => Balance(lots) + DisposedSat(gains) = AcquiredSat(txs)

C1_Witness ==
    /\ Len(txs) = MaxLedger
    /\ Len(gains) >= 2
    /\ Len(lots) >= 1
    /\ lots[1].amount_sat = 1
    /\ AcquiredSat(txs) > Balance(lots)

\* C2: with Lifo every disposal of a run draws from the newest lot that still
\* has a balance: a lot it draws from is newer than every other lot left.
C2_LifoNewestFirst ==
    [][(method = "lifo" /\ DisposeTaken)
         => \A c \in ConsumedLots(lots, lots') : \A r \in LeftLots(lots') :
                r.date # c.date => DateLess(r.date, c.date)]_vars

\* C3: with Fifo every disposal draws from the oldest lot that still has a
\* balance; from lots of 1 BTC (2 units) at 100, 200, 300 a disposal of 1.5 BTC
\* (3 units) emits a record of 1 BTC with basis 100 and one of 0.5 BTC with basis
\* 100, and leaves 0.5 BTC of the 200 lot and the 300 lot (basis in USD x units).
C3_Example ==
    (/\ Len(lots) = 3
     /\ \A i \in 1..3 : lots[i].amount_sat = 2 /\ lots[i].price_usd = 100 * i
     /\ LastTx.amount_sat = 3)
      => /\ Len(NewGains) = 2
         /\ NewGains[1].sell_amount_sat = 2 /\ NewGains[1].cost_basis_usd = 2 * 100
         /\ NewGains[2].sell_amount_sat = 1 /\ NewGains[2].cost_basis_usd = 1 * 200
         /\ lots' = <<[lots[2] EXCEPT !.amount_sat = 1], lots[3]>>

C3_FifoOldestFirst ==
    [][(method = "fifo" /\ DisposeTaken)
         => /\ \A c \in ConsumedLots(lots, lots') : \A r \in LeftLots(lots') :
                  r.date # c.date => DateLess(c.date, r.date)
            /\ C3_Example]_vars

C3_Witness ==
    /\ method = "fifo"
    /\ Len(txs) = 4
    /\ Len(gains) = 2
    /\ gains[1].sell_amount_sat = 2 /\ gains[1].cost_basis_usd = 200
    /\ gains[2].sell_amount_sat = 1 /\ gains[2].cost_basis_usd = 200
    /\ Len(lots) = 2
    /\ lots[1].amount_sat = 1 /\ lots[1].price_usd = 200
    /\ lots[2].amount_sat = 2 /\ lots[2].price_usd = 300

\* C4: with Hifo every disposal of a run draws from a lot of the highest unit
\* price among the lots that still have a balance.
C4_HifoHighestFirst ==
    [][(method = "hifo" /\ DisposeTaken)
         => \A c \in ConsumedLots(lots, lots') : \A r \in LeftLots(lots') :
                r.date # c.date => r.price_usd <= c.price_usd]_vars

\* a second disposal that drew from a lot acquired after the first disposal,
\* dearer than an older lot it left
C4_Witness ==
    /\ method = "hifo"
    /\ Len(txs) = 4
    /\ IsAcquisition(txs[1]) /\ IsDisposal(txs[2])
    /\ IsAcquisition(txs[3]) /\ IsDisposal(txs[4])
    /\ Len(gains) = 2
    /\ Len(lots) = 1
    /\ lots[1].date = txs[1].transacted_at
    /\ lots[1].price_usd < UnwrapOr(txs[3].price_usd, 0)

\* C5: the tax-year filter never changes lot depletion: the working set is the
\* one of the unfiltered run on the same ledger, whatever the filter, and with a
\* filter no record of another year is reported.
C5_FilterKeepsLots ==
    /\ lots = RunLedger(txs, method, None).lots
    /\ remaining_balance_sat = Balance(RunLedger(txs, method, None).lots)
    /\ \A y \in TaxYears : RunLedger(txs, method, Some(y)).lots = lots
    /\ IsSome(tax_year) => \A i \in 1..Len(gains) : gains[i].sell_date[1] = tax_year[1]

\* filter 2024, a disposal of 2023 that drew from a lot: no record, lot depleted
C5_Witness ==
    /\ tax_year = Some(2024)
    /\ gains = <<>>
    /\ \E i \in 1..Len(txs) : IsDisposal(txs[i]) /\ txs[i].transacted_at[1] = 2023
    /\ RunLedger(txs, method, None).gains # <<>>
    /\ Balance(lots) < AcquiredSat(txs)

\* C6: a sell/send of more than the balance disposes exactly the balance, leaves
\* the working set empty, and the shortfall is not held against a later lot.
OversoldLast ==
    /\ txs # <<>>
    /\ IsDisposal(txs[Len(txs)])
    /\ txs[Len(txs)].amount_sat >
         Balance(RunLedger(SubSeq(txs, 1, Len(txs) - 1), method, tax_year).lots)

C6_OversellTruncated ==
    [][/\ (DisposeTaken /\ LastTx.amount_sat > Balance(lots))
          => lots' = <<>> /\ DisposedSat(NewGains) = Balance(lots)
       /\ (AcquireTaken /\ OversoldLast)
          => /\ lots' = <<Lot(LastTx.amount_sat, UnwrapOr(LastTx.price_usd, 0),
                              LastTx.transacted_at)>>
             /\ gains' = gains]_vars

C6_Witness ==
    /\ Len(txs) >= 3
    /\ IsAcquisition(txs[Len(txs)])
    /\ LET before == RunLedger(SubSeq(txs, 1, Len(txs) - 2), method, tax_year)
           sold == txs[Len(txs) - 1]
       IN  /\ IsDisposal(sold)
           /\ before.lots # <<>>
           /\ sold.amount_sat > Balance(before.lots)
           /\ DisposedSat(gains) = AcquiredSat(SubSeq(txs, 1, Len(txs) - 2))
    /\ Balance(lots) = txs[Len(txs)].amount_sat

\* a step in which the call of caller c returns
Finishes(c) == calls[c].phase = "resp" /\ calls'[c].phase = "idle"

\* the transaction the call of caller c has found in its response, 0 when none
Hit(c) ==
    IF calls[c].resp.kind = "ok"
    THEN FirstQualifying(calls[c].resp.txs, calls[c].btc_address, calls[c].amount_sat)
    ELSE 0

\* the payment fields of a row
PaidFields(row) == <<row.paid_at, row.paid_txid, row.paid_amount_sat>>

\* C7: for an invoice that is not reusable, with no external edit, the paid
\* write is applied at most once: once paid_at is written, no step changes
\* paid_at, paid_txid or paid_amount_sat, however the checks of the loop and
\* of the routes interleave.
C7_PaidWrittenOnce ==
    [][\A i \in DOMAIN inv :
         (~inv[i].reusable /\ IsSome(inv[i].paid_at))
            => /\ inv'[i].status = "paid"
               /\ PaidFields(inv'[i]) = PaidFields(inv[i])]_vars

\* a later check has found a qualifying transaction for the paid invoice and
\* has written nothing
C7_Witness ==
    \E i \in DOMAIN inv :
        /\ ~inv[i].reusable
        /\ inv[i].status = "paid"
        /\ inv[i].paid_at = Some(0)
        /\ now > 0
        /\ last.invoice_id = i /\ last.found /\ last.rows = 0

\* C8: a check never changes an invoice whose stored status, when the check
\* writes, is cancelled, expired or draft.
C8_OnlySentBecomesPaid ==
    [][\A c \in Callers :
         (/\ Finishes(c)
          /\ inv[calls[c].invoice_id].status \in {"cancelled", "expired", "draft"})
            => inv'[calls[c].invoice_id] = inv[calls[c].invoice_id]]_vars

\* C9: a check of a reusable invoice that is paid by one transaction and finds
\* another qualifying transaction records that one: paid_txid and
\* paid_amount_sat are those of the latest match.
C9_ReusableRepaid ==
    [][\A c \in Callers :
         LET i == calls[c].invoice_id
         IN  (/\ Finishes(c)
              /\ Hit(c) # 0
              /\ inv[i].reusable
              /\ inv[i].status = "paid"
              /\ IsSome(inv[i].paid_txid)
              /\ inv[i].paid_txid # Some(calls[c].resp.txs[Hit(c)].txid))
                => /\ inv'[i].status = "paid"
                   /\ inv'[i].paid_txid = Some(calls[c].resp.txs[Hit(c)].txid)
                   /\ inv'[i].paid_amount_sat =
                        Some(Received(calls[c].resp.txs[Hit(c)], calls[c].btc_address))]_vars

\* C10: a check of an invoice that is not reusable (and that, when it is paid,
\* was paid by a check) returns true iff it found a qualifying transaction and
\* its update changed the row.
C10_TrueIffUpdated ==
    [][\A c \in Callers :
         LET i == calls[c].invoice_id
         IN  (/\ Finishes(c)
              /\ ~inv[i].reusable
              /\ (inv[i].status = "paid" => IsSome(inv[i].paid_txid)))
                => /\ last'.invoice_id = i
                   /\ last'.ret = "true" <=> (last'.found /\ last'.rows = 1)]_vars

\* C11: an invoice whose status is paid carries the payment fields a check
\* writes: paid_at, paid_txid and paid_amount_sat are all set.
C11_PaidOnlyByCheck ==
    \A i \in DOMAIN inv :
        inv[i].status = "paid"
            => /\ IsSome(inv[i].paid_at)
               /\ IsSome(inv[i].paid_txid)
               /\ IsSome(inv[i].paid_amount_sat)

\* caller c issues its chain query in this step
Queries(c) == calls[c].phase = "idle" /\ calls'[c].phase = "sent"

\* C12: a check of an invoice that is paid and not reusable is skipped: no
\* caller, route or loop, issues a chain query for it, and its row is not
\* written.
C12_PaidSkipped ==
    [][\A c \in DOMAIN calls :
         Queries(c) =>
            LET i == calls'[c].invoice_id
            IN  /\ ~(inv[i].status = "paid" /\ ~inv[i].reusable)
                /\ inv'[i] = inv[i]]_vars

\* the value tx sends to the address, counted output by output
SentTo(tx, address) ==
    LET RECURSIVE Upto(_)
        Upto(k) ==
            IF k = 0 THEN 0
            ELSE Upto(k - 1) +
                 (IF tx.vout[k].scriptpubkey_address = Some(address)
                  THEN tx.vout[k].value ELSE 0)
    IN  Upto(Len(tx.vout))

\* the positions of the response of caller c whose transaction alone pays the
\* amount of the call
Paying(c) ==
    {k \in 1..Len(calls[c].resp.txs) :
        SentTo(calls[c].resp.txs[k], calls[c].btc_address) >= calls[c].amount_sat}

\* C13: a check of a sent invoice that gets the transactions of the address
\* records the first transaction, in the order returned, whose own outputs to
\* the address sum to at least the amount, with that sum; when no single
\* transaction pays the amount, nothing is written.
C13_FirstQualifyingWins ==
    [][\A c \in DOMAIN calls :
         LET i == calls[c].invoice_id
             rtxs == calls[c].resp.txs
         IN  (Finishes(c) /\ calls[c].resp.kind = "ok" /\ inv[i].status = "sent")
                => IF Paying(c) = {}
                   THEN inv'[i] = inv[i] /\ last'.ret = "false"
                   ELSE LET k == CHOOSE k \in Paying(c) : \A j \in Paying(c) : k <= j
                        IN  /\ inv'[i].status = "paid"
                            /\ inv'[i].paid_txid = Some(rtxs[k].txid)
                            /\ inv'[i].paid_amount_sat = Some(SentTo(rtxs[k], calls[c].btc_address))
                            /\ last'.ret = "true"]_vars

\* the recorded transaction pays the amount by two outputs, and an older
\* transaction that pays it too has been passed over
C13_Witness ==
    /\ Len(chain) = 2
    /\ inv[1].amount_sat = 2
    /\ inv[1].status = "paid"
    /\ inv[1].paid_txid = Some(chain[1].txid)
    /\ inv[1].paid_amount_sat = Some(2)
    /\ Len(chain[1].vout) = 2
    /\ SentTo(chain[2], MatchAddress) >= 2

\* C14: a failed check in the loop changes no invoice and drops only its own
\* row from the batch: the rows after it stay to be checked in the same cycle,
\* and the cycle ends, for the next one to start, only with its last row.
C14_FailureIsolated ==
    [][(Finishes(Loop) /\ calls[Loop].resp.kind = "error")
          => /\ inv' = inv
             /\ last'.ret = "err"
             /\ bg'.batch = Tail(bg.batch)
             /\ bg'.pc = IF Tail(bg.batch) = <<>> THEN "sleep" ELSE "check"]_vars

\* after the failed check of one invoice the loop is checking the next one of
\* the batch
C14_Witness ==
    /\ last.ret = "err"
    /\ calls[Loop].phase = "sent"
    /\ calls[Loop].invoice_id # last.invoice_id
    /\ last.invoice_id \in DOMAIN inv

\* C15: a step in which a check marks an invoice paid appends an entry to the
\* transaction ledger.
C15_PaidWritesLedger ==
    [][\A c \in DOMAIN calls :
         LET i == calls[c].invoice_id
         IN  (Finishes(c) /\ inv'[i] # inv[i] /\ inv'[i].status = "paid")
                => Len(txs') = Len(txs) + 1]_vars

\* the days of the tax-year ledgers counted from 2023-01-01 on the calendar:
\* 2023 has 365 days, 2024 has 366
CalendarDay(d) ==
    CASE d = <<2023, 1, 1>> -> 0
      [] d = <<2023, 12, 31>> -> 364
      [] d = <<2024, 1, 1>> -> 365
      [] d = <<2024, 12, 31>> -> 730

\* C16: every disposal record is long-term iff more than 365 days lie between
\* the acquisition of the lot it consumed and the disposal: 365 days is
\* short-term, 366 days is long-term.
C16_LongTermOver365 ==
    [][DisposeTaken =>
         \A k \in 1..Len(NewGains) :
            LET lot == sort_lots(lots, method)[k]
                held == CalendarDay(LastTx.transacted_at) - CalendarDay(lot.date)
            IN  /\ NewGains[k].holding_period_days = held
                /\ NewGains[k].is_long_term <=> held > 365]_vars

\* one disposal has consumed a lot held 365 days, recorded short-term, and a
\* lot held 366 days, recorded long-term
C16_Witness ==
    \E i, j \in 1..Len(gains) :
        /\ gains[i].holding_period_days = 365 /\ ~gains[i].is_long_term
        /\ gains[j].holding_period_days = 366 /\ gains[j].is_long_term
        /\ gains[i].sell_date = gains[j].sell_date

\* C17: in the CSV of a year's report each total of the TOTALS row, proceeds,
\* cost basis and gain, is the sum of the amounts printed in the rows.
C17_TotalsAreRowSums ==
    IsSome(tax_year) =>
        LET csv == generate_form_8949_csv(gains)
            n == Len(csv.rows)
        IN  /\ csv.totals.proceeds = SumSeq([k \in 1..n |-> csv.rows[k].proceeds])
            /\ csv.totals.cost_basis = SumSeq([k \in 1..n |-> csv.rows[k].cost_basis])
            /\ csv.totals.gain_or_loss = SumSeq([k \in 1..n |-> csv.rows[k].gain_or_loss])

\* what is left in `after` of the lot acquired on date d
LeftOf(d, after) ==
    SumSeq([k \in 1..Len(after) |-> IF after[k].date = d THEN after[k].amount_sat ELSE 0])

\* C18: a sell or send emits one record per lot it draws from: as many records
\* as lots drawn from, each with the amount taken from its lot, that lot's
\* cost and the days since that lot's acquisition, and the amounts sum to the
\* smaller of the amount requested and the balance before the event.
C18_RecordPerLot ==
    [][DisposeTaken =>
         LET C == ConsumedLots(lots, lots')
         IN  /\ Len(NewGains) = Cardinality(C)
             /\ \A c \in C : \E j \in 1..Len(NewGains) :
                   /\ NewGains[j].holding_period_days = LastTx.transacted_at[3] - c.date[3]
                   /\ NewGains[j].sell_amount_sat = c.amount_sat - LeftOf(c.date, lots')
                   /\ NewGains[j].sell_amount_sat > 0
                   /\ NewGains[j].cost_basis_usd = NewGains[j].sell_amount_sat * c.price_usd
             /\ DisposedSat(NewGains) = Min(LastTx.amount_sat, Balance(lots))]_vars

\* one sell has drawn from three lots, the last of them in part
C18_Witness ==
    /\ Len(txs) = 4
    /\ Len(gains) = 3
    /\ \A k \in 1..3 : gains[k].sell_date = txs[4].transacted_at
    /\ Len(lots) = 1
    /\ lots[1].amount_sat = 1

\* invoice row r is sent and its expiry lies before the instant at
Overdue(r, at) ==
    r.status = "sent" /\ r.expires_at # None /\ r.expires_at[1] < at

\* C19: the expiry of a cycle of the loop sets the sent invoices whose
\* expires_at lies before the cycle's time to expired and changes nothing
\* else: every other invoice keeps its row, and no payment field changes.
C19_ExpiryFrame ==
    [][BgCycle =>
         \A i \in DOMAIN inv :
            /\ Overdue(inv[i], now) => inv'[i].status = "expired"
            /\ ~Overdue(inv[i], now) => inv'[i] = inv[i]
            /\ PaidFields(inv'[i]) = PaidFields(inv[i])
            /\ inv'[i].expires_at = inv[i].expires_at
            /\ inv'[i].amount_sat = inv[i].amount_sat
            /\ inv'[i].btc_address = inv[i].btc_address
            /\ inv'[i].reusable = inv[i].reusable]_vars

\* a cycle has expired one invoice and is checking another, sent and not yet
\* overdue
C19_Witness ==
    \E i, j \in DOMAIN inv :
        /\ inv[i].status = "expired" /\ inv[i].expires_at = Some(0)
        /\ inv[j].status = "sent" /\ inv[j].expires_at = Some(MaxTime)
        /\ bg.pc = "check" /\ bg.batch[1].id = j

\* the chain query of caller c has failed: the request or the parse of the
\* body failed, or the HTTP status was not a success
QueryFailed(c) == calls[c].resp.kind \in {"error", "status"}

\* C20: a check whose chain query failed changes no invoice and reports no
\* payment; in the loop it ends like a check that found nothing: the loop goes
\* on to the next row of the batch or to the next cycle.
C20_FailureChangesNothing ==
    [][\A c \in DOMAIN calls :
         (Finishes(c) /\ QueryFailed(c))
            => /\ inv' = inv
               /\ last'.ret \in {"false", "err"}
               /\ ~last'.found
               /\ c = Loop => /\ bg'.batch = Tail(bg.batch)
                              /\ bg'.pc \in {"check", "sleep"}]_vars

\* the last check of the invoice ended without a payment found, the invoice is
\* still sent, and the chain holds a payment of it
C20_Witness ==
    \E i \in DOMAIN inv :
        /\ last.invoice_id = i
        /\ last.ret \in {"false", "err"}
        /\ ~last.found
        /\ inv[i].status = "sent"
        /\ chain # <<>>
        /\ FirstQualifying(AddressTxs(chain, inv[i].btc_address),
                           inv[i].btc_address, inv[i].amount_sat) = Len(chain)

\* C21: the CSV of a year's report is one header record of 7 columns, then one
\* record per disposal record of the year, in the engine's order, then one
\* TOTALS record with blank dates; disposition_count is the number of
\* disposal records.
C21_CsvLayout ==
    IsSome(tax_year) =>
        LET lines == generate_form_8949_csv(gains).lines
            n == Len(gains)
        IN  /\ Len(lines) = n + 2
            /\ \A k \in 1..Len(lines) : Len(lines[k]) = 7
            /\ lines[1][1] = "Description of Property" /\ lines[1][7] = "Term"
            /\ \A k \in 1..n :
                  /\ gains[k].sell_date[1] = tax_year[1]
                  /\ lines[k + 1][1] = gains[k].sell_amount_sat
                  /\ lines[k + 1][3] = gains[k].sell_date
                  /\ lines[k + 1][7] = IF gains[k].is_long_term THEN "Long-term" ELSE "Short-term"
            /\ lines[n + 2][1] = "TOTALS"
            /\ lines[n + 2][2] = "" /\ lines[n + 2][3] = ""
            /\ generate_tax_report(gains).disposition_count = n

\* a report of 2024 with two disposal records, a short-term and a long-term one
C21_Witness ==
    /\ tax_year = Some(2024)
    /\ Len(gains) = 2
    /\ ~gains[1].is_long_term /\ gains[2].is_long_term
    /\ Len(generate_form_8949_csv(gains).lines) = 4

\* transaction k of the chain pays invoice i: its outputs to the address of
\* the invoice sum to at least the amount
PaidOnChain(i) ==
    \E k \in 1..Len(chain) : SentTo(chain[k], inv[i].btc_address) >= inv[i].amount_sat

\* C22: with a loop that keeps running and a chain client that answers, every
\* invoice that is sent and paid on chain eventually becomes paid, however
\* many other sent invoices there are.
C22_NoStarvation ==
    (\E i \in WatchInvoices : inv[i].status = "sent" /\ PaidOnChain(i))
        ~> (\A i \in WatchInvoices : PaidOnChain(i) => inv[i].status = "paid")

\* C23: no step moves an invoice that is sent and has a qualifying transaction
\* on chain to expired: the cycle that begins in such a state checks the
\* invoice, it does not expire it.
C23_PaidInTimeNotExpired ==
    [][\A i \in DOMAIN inv :
          (inv[i].status = "sent" /\ PaidOnChain(i)) => inv'[i].status # "expired"]_vars

\* C24: a paid invoice records a transaction that pays it: the transaction
\* has an output to the invoice address and paid_amount_sat is positive.
C24_PaidByPayingTx ==
    \A i \in DOMAIN inv :
        inv[i].status = "paid" =>
            /\ inv[i].paid_amount_sat[1] > 0
            /\ \E k \in 1..Len(chain) :
                  /\ chain[k].txid = inv[i].paid_txid[1]
                  /\ TouchesAddress(chain[k], inv[i].btc_address)

\* the records of the run without a filter on the same ledger
UnfilteredGains == RunLedger(txs, method, None).gains

\* C25: with a filter y the records are the records of the run without a
\* filter whose disposal year is y, in the same order and with the same
\* fields; nothing else is dropped, altered or added.
C25_FilterIsSubsequence ==
    IsSome(tax_year) =>
        gains = SelectSeq(UnfilteredGains, LAMBDA g : g.sell_date[1] = tax_year[1])

\* filter 2024 on a ledger with a record of 2023 followed by one of 2024
C25_Witness ==
    /\ tax_year = Some(2024)
    /\ Len(UnfilteredGains) = 2
    /\ UnfilteredGains[1].sell_date[1] = 2023
    /\ gains = <<UnfilteredGains[2]>>

\* the price a row carries, 0 when it carries none
PriceOf(tx) == IF tx.price_usd = None THEN 0 ELSE tx.price_usd[1]

\* C26: every record of a disposal has proceeds = amount x the price of the
\* disposal, cost basis = amount x the price of the acquisition whose lot it
\* drew from (the acquisition as many days back as the holding period), and
\* gain = proceeds - cost basis; a row without a price counts with price 0.
C26_RecordArithmetic ==
    [][DisposeTaken =>
         \A k \in 1..Len(NewGains) :
            LET g == NewGains[k]
            IN  /\ g.sell_price_usd = PriceOf(LastTx)
                /\ g.proceeds_usd = g.sell_amount_sat * PriceOf(LastTx)
                /\ g.gain_usd = g.proceeds_usd - g.cost_basis_usd
                /\ \E j \in 1..Len(txs) :
                      /\ IsAcquisition(txs[j])
                      /\ days_between(txs[j].transacted_at, LastTx.transacted_at)
                           = g.holding_period_days
                      /\ g.cost_basis_usd = g.sell_amount_sat * PriceOf(txs[j])]_vars

\* a record drawn from a lot received without a price and sold at a price, and
\* a record of a send without a price drawn from a bought lot
C26_Witness ==
    \E a, b \in 1..Len(gains) :
        /\ gains[a].cost_basis_usd = 0 /\ gains[a].proceeds_usd > 0
        /\ gains[a].gain_usd = gains[a].proceeds_usd
        /\ gains[b].proceeds_usd = 0 /\ gains[b].cost_basis_usd > 0
        /\ gains[b].gain_usd = 0 - gains[b].cost_basis_usd

\* C27: with Hifo, a disposal that draws from a lot leaves no earlier-acquired
\* lot of the same unit price with a balance, and the working set keeps lots
\* of equal price in acquisition order, whatever disposals and acquisitions
\* came before.
C27_HifoTiesByAcquisition ==
    [][method = "hifo" =>
         /\ DisposeTaken =>
               \A c \in ConsumedLots(lots, lots') : \A r \in LeftLots(lots') :
                  (r.price_usd = c.price_usd /\ r.date # c.date)
                     => DateLess(c.date, r.date)
         /\ \A i, j \in 1..Len(lots') :
               (i < j /\ lots'[i].price_usd = lots'[j].price_usd)
                  => DateLess(lots'[i].date, lots'[j].date)]_vars

\* Hifo: a lot of day 1 drawn from in part, a lot of the same price acquired on
\* day 3, then a disposal that took the rest of the first lot and part of the
\* second
C27_Witness ==
    /\ method = "hifo"
    /\ Len(txs) = 4 /\ Len(gains) = 3
    /\ IsAcquisition(txs[1]) /\ IsDisposal(txs[2])
    /\ IsAcquisition(txs[3]) /\ IsDisposal(txs[4])
    /\ txs[1].price_usd = txs[3].price_usd
    /\ gains[2].holding_period_days = 3
    /\ gains[3].holding_period_days = 1
    /\ Len(lots) = 1 /\ lots[1].date = txs[3].transacted_at

\* C29: the balance of the portfolio summary is the balance of the lots the
\* engine leaves on the same ledger, and it is never negative.
C29_SummaryMatchesLots ==
    LET summary == portfolio_summary(txs, method)
    IN  /\ summary.total_balance_sat = Balance(RunLedger(txs, method, None).lots)
        /\ summary.total_balance_sat >= 0

\* C28: every record of a disposal has a positive amount, and after the
\* disposal no lot of amount 0 is left in the working set.
C28_NoEmptyRecordsOrLots ==
    [][DisposeTaken =>
         /\ \A k \in 1..Len(NewGains) : NewGains[k].sell_amount_sat > 0
         /\ \A i \in 1..Len(lots') : lots'[i].amount_sat # 0]_vars

\* the states [lots, gains, remaining] the while loop of a disposal passes
\* through, from its entry to its exit
RECURSIVE LoopStates(_, _, _, _)
LoopStates(w, sell_price, date, ty) ==
    IF w.remaining > 0 /\ w.lots # <<>>
    THEN <<w>> \o LoopStates(DisposeStep(w, sell_price, date, ty), sell_price, date, ty)
    ELSE <<w>>

\* C30: the loop of a disposal ends, whatever the stored amounts: each
\* iteration brings the amount still to dispose to 0 or removes a lot, so the
\* iterations number at most the lots of the working set plus one, and the
\* state the loop exits with is the result of the disposal.
C30_DepletionTerminates ==
    [][DisposeTaken =>
         LET tr == LoopStates([lots |-> sort_lots(lots, method), gains |-> gains,
                               remaining |-> LastTx.amount_sat],
                              PriceOf(LastTx), LastTx.transacted_at, tax_year)
             n == Len(tr) - 1
         IN  /\ n <= Len(lots) + 1
             /\ \A k \in 1..n :
                   \/ tr[k + 1].remaining = 0
                   \/ Len(tr[k + 1].lots) = Len(tr[k].lots) - 1
             /\ ~(tr[n + 1].remaining > 0 /\ tr[n + 1].lots # <<>>)
             /\ lots' = tr[n + 1].lots
             /\ gains' = tr[n + 1].gains]_vars

\* a disposal of 1 over lots of 0, -1 and 2: three iterations, three records,
\* no lot left
C30_Witness ==
    /\ method = "fifo"
    /\ Len(txs) = 4 /\ IsDisposal(txs[4]) /\ txs[4].amount_sat = 1
    /\ Len(gains) = 3
    /\ gains[1].sell_amount_sat = 0
    /\ gains[2].sell_amount_sat = 0 - 1
    /\ gains[3].sell_amount_sat = 2
    /\ lots = <<>>

====
